---- MODULE Spec2Model ----
(***************************************************************************)
(* Model of the ingestion pipeline of ruc-dnit (src/src/downloader.py):    *)
(* ZipDownloader.process_url with find_zip_urls, _get_filename_from_url,   *)
(* download_file and extract_zip, then unify_txt_files,                    *)
(* _write_batch_to_csv, _validate_pipe_file and _create_sqlite_db, and of  *)
(* the reader's view of the store in src/src/api.py (get_db_connection,    *)
(* search_ruc, format_response).                                           *)
(*                                                                         *)
(* A file is a record [exists, lines] whose lines are the file's lines     *)
(* without their newline.  The store file is a record [exists, rows] whose *)
(* rows are the committed rows of table ruc in id order.                   *)
(***************************************************************************)
EXTENDS Integers, Sequences, FiniteSets, Bags, TLC

VARIABLES
    pc,            \* control location of the running call
    txt_files,     \* list(self.output_dir.glob("**/*.txt")): the files, in listing order
    batch_size,    \* parameter batch_size of unify_txt_files
    db_batch_size, \* parameter batch_size of _create_sqlite_db
    headers,       \* local headers of unify_txt_files ([set, fields])
    file_idx,      \* position of the merge loop in txt_files
    total_rows,    \* local total_rows of unify_txt_files
    temp_csv,      \* data/ruc_temp.csv
    csv,           \* data/ruc.csv
    error_csv,     \* data/error.csv
    sqlite,        \* data/ruc.sqlite as committed on disk
    pending,       \* rows inserted in the open transaction of conn
    batch,         \* local batch of _create_sqlite_db
    insert_count,  \* local insert_count of _create_sqlite_db
    line_idx,      \* next line of the dataset that _create_sqlite_db reads
    result,        \* value returned by the running call ("none" while it runs)
    hist,          \* history: what the run started from and what it did
    url,           \* parameter url of process_url
    response,      \* what requests.get(url) gives: [ok, anchors]
    zip_urls,      \* local zip_urls of process_url
    url_idx,       \* position of the loop "for zip_url in zip_urls"
    zip_path,      \* local zip_path of process_url (<<>> is None)
    stats,         \* local stats of process_url
    archives,      \* the archive files in output_dir: records [name, content]
    tree,          \* the extracted flat files in output_dir: records [dir, lines]
    attempts,      \* history: the URLs handed to download_file and what became of them
    returned       \* the value process_url returned (<<>> while it runs)

vars == << pc, txt_files, batch_size, db_batch_size, headers, file_idx, total_rows, temp_csv, csv,
           error_csv, sqlite, pending, batch, insert_count, line_idx, result, hist,
           url, response, zip_urls, url_idx, zip_path, stats, archives, tree, attempts,
           returned >>

ProcVars == << url, response, zip_urls, url_idx, zip_path, stats, archives, tree, attempts,
               returned >>

-----------------------------------------------------------------------------
(* Bounds of the model.                                                    *)

MaxFiles == 2        \* flat files in a directory listing
MaxBatchSize == 2    \* largest batch_size a call is given
MaxReadErrors == 1   \* flat-file reads that raise during one call
MaxDataRows == 3     \* data rows of a dataset handed to the validator
MaxVaried == 2       \* varied leading rows of a dataset handed to the loader
MaxFill == 10        \* repeated trailing rows of a dataset handed to the loader

(* Program constants.                                                      *)

CommitEveryBatches == 10   \* insert_count % (batch_size * 10) == 0
NumStoreFields == 5        \* ruc, razon_social, dv, ruc_anterior, estado

-----------------------------------------------------------------------------
(* Text.  A line is a sequence of pieces: the one-character strings "|"   *)
(* and " ", and strings standing for a run of other characters.  Python's *)
(* str.strip, str.split("|"), "|".join, str.upper, `in`, str.replace and   *)
(* the f-string rendering of an int act on such sequences.                 *)

Pipe == "|"
Space == " "
Backslash == "\\"

RECURSIVE LStrip(_)
LStrip(s) == IF s # <<>> /\ Head(s) = Space THEN LStrip(Tail(s)) ELSE s

RECURSIVE RStrip(_)
RStrip(s) ==
    IF s # <<>> /\ s[Len(s)] = Space THEN RStrip(SubSeq(s, 1, Len(s) - 1)) ELSE s

\* str.strip()
Strip(s) == RStrip(LStrip(s))

\* s.split("|"): always at least one field
RECURSIVE SplitFrom(_, _)
SplitFrom(s, cur) ==
    IF s = <<>> THEN << cur >>
    ELSE IF Head(s) = Pipe THEN << cur >> \o SplitFrom(Tail(s), <<>>)
    ELSE SplitFrom(Tail(s), Append(cur, Head(s)))

Split(s) == SplitFrom(s, <<>>)

\* "|".join(parts)
RECURSIVE Join(_)
Join(parts) ==
    IF parts = <<>> THEN <<>>
    ELSE IF Len(parts) = 1 THEN parts[1]
    ELSE parts[1] \o << Pipe >> \o Join(Tail(parts))

\* [p.strip() for p in line.split("|")]
StripParts(line) == LET ps == Split(line) IN [i \in 1..Len(ps) |-> Strip(ps[i])]

\* str.upper() of a piece (the pieces with letters that the samples use)
UpperPiece(c) ==
    CASE c = "cancelado" -> "CANCELADO"
      [] c = "Cancelado" -> "CANCELADO"
      [] c = "activo" -> "ACTIVO"
      [] OTHER -> c

\* str.upper()
Upper(s) == [i \in 1..Len(s) |-> UpperPiece(s[i])]

\* sub in s
Contains(s, sub) ==
    \E i \in 0..(Len(s) - Len(sub)) : SubSeq(s, i + 1, i + Len(sub)) = sub

CANCELADO == << "CANCELADO" >>

\* contenido.replace("|", "\\|")
RECURSIVE EscapePipes(_)
EscapePipes(s) ==
    IF s = <<>> THEN <<>>
    ELSE IF Head(s) = Pipe THEN << Backslash, Pipe >> \o EscapePipes(Tail(s))
    ELSE << Head(s) >> \o EscapePipes(Tail(s))

Digit(d) == CASE d = 0 -> "0" [] d = 1 -> "1" [] d = 2 -> "2" [] d = 3 -> "3"
              [] d = 4 -> "4" [] d = 5 -> "5" [] d = 6 -> "6" [] d = 7 -> "7"
              [] d = 8 -> "8" [] d = 9 -> "9"

\* f"{n}" of a non-negative int
RECURSIVE Str(_)
Str(n) == IF n < 10 THEN << Digit(n) >> ELSE Str(n \div 10) \o << Digit(n % 10) >>

-----------------------------------------------------------------------------
(* Files.                                                                  *)

Absent == [exists |-> FALSE, lines |-> <<>>]
File(ls) == [exists |-> TRUE, lines |-> ls]

SeqsUpTo(S, n) == UNION { [1..k -> S] : k \in 0..n }

\* The files in another listing order.
ListingOrders(n) == { p \in [1..n -> 1..n] : \A i, j \in 1..n : p[i] = p[j] => i = j }
Reorder(files, p) == [i \in 1..Len(files) |-> files[p[i]]]

\* ["ruc", "razon_social", "dv", "ruc_anterior", "estado"]
DefaultHeaders == << <<"ruc">>, <<"razon_social">>, <<"dv">>, <<"ruc_anterior">>, <<"estado">> >>

HeaderLine == Join(DefaultHeaders)
ShortHeaderLine == << "ruc", "|", "razon_social" >>

\* Sample flat files (the lines of each).
TxtA == << HeaderLine, << "1", "|", "A", "|", "1", "|", "0", "|", "activo" >> >>
TxtB == << HeaderLine,
           << " ", "2", " ", "|", " ", "B", " ", "|", "2", "|", "0", "|", "activo", " " >>,
           << " " >>,
           << "3", "|", "C", "|", "3", "|", "0", "|", "cancelado", "|", "x" >> >>
TxtShort == << ShortHeaderLine, << "4", "|", "D" >> >>
TxtHeaderOnly == << HeaderLine >>
TxtNoHeader == << << " " >>, << "5", "|", "E", "|", "5", "|", "0", "|", "activo" >> >>

TxtSamples == { TxtA, TxtB, TxtShort, TxtHeaderOnly, TxtNoHeader }

\* What an earlier run left behind.
OldCsv == File(<< HeaderLine, << "123", "|", "empresa", "|", "1", "|", "0", "|", "activo" >> >>)
StaleTemp == File(<< HeaderLine, << "999", "|", "stale", "|", "9", "|", "0", "|", "activo" >> >>)
OldRow == << <<"123">>, <<"empresa">>, <<"1">>, <<"0">>, <<"activo">> >>
OldDb == [exists |-> TRUE, rows |-> << OldRow >>]
NoDb == [exists |-> FALSE, rows |-> <<>>]

\* data/ before the call: a first run, a dataset without a store, a completed
\* run, a completed run followed by an interrupted one.
PriorRuns ==
    { [csv |-> Absent, temp_csv |-> Absent, sqlite |-> NoDb],
      [csv |-> OldCsv, temp_csv |-> Absent, sqlite |-> NoDb],
      [csv |-> OldCsv, temp_csv |-> Absent, sqlite |-> OldDb],
      [csv |-> OldCsv, temp_csv |-> StaleTemp, sqlite |-> OldDb] }

-----------------------------------------------------------------------------
(* URLs.  A URL or an href is a sequence of pieces like a line: the one-    *)
(* character strings "/", ":", "?", the extension pieces ".zip", ".ZIP",    *)
(* and strings standing for a run of other characters.                      *)

Slash == "/"
Colon == ":"
Question == "?"
DotZip == ".zip"

\* str.lower() of a piece (the pieces with capitals that the samples use)
LowerPiece(c) ==
    CASE c = ".ZIP" -> ".zip"
      [] c = "HTTPS" -> "https"
      [] c = "RUC0" -> "ruc0"
      [] OTHER -> c

\* str.lower()
Lower(s) == [i \in 1..Len(s) |-> LowerPiece(s[i])]

\* s.endswith(suffix)
EndsWith(s, suffix) ==
    Len(s) >= Len(suffix) /\ SubSeq(s, Len(s) - Len(suffix) + 1, Len(s)) = suffix

\* the pieces of s before the first piece that is in `stops`
RECURSIVE UpTo(_, _)
UpTo(s, stops) ==
    IF s = <<>> \/ Head(s) \in stops THEN <<>> ELSE << Head(s) >> \o UpTo(Tail(s), stops)

\* s.split("/")
RECURSIVE SegmentsFrom(_, _)
SegmentsFrom(s, cur) ==
    IF s = <<>> THEN << cur >>
    ELSE IF Head(s) = Slash THEN << cur >> \o SegmentsFrom(Tail(s), <<>>)
    ELSE SegmentsFrom(Tail(s), Append(cur, Head(s)))

Segments(s) == SegmentsFrom(s, <<>>)

\* urlparse(url): scheme (lowercased), netloc and path
urlparse(u) ==
    LET has_scheme == Len(u) >= 2 /\ u[2] = Colon /\ u[1] \notin {Slash, Colon, Question}
        rest == IF has_scheme THEN SubSeq(u, 3, Len(u)) ELSE u
        has_netloc == Len(rest) >= 2 /\ rest[1] = Slash /\ rest[2] = Slash
        after == IF has_netloc THEN SubSeq(rest, 3, Len(rest)) ELSE rest
        netloc == IF has_netloc THEN UpTo(after, {Slash, Question}) ELSE <<>>
        tail == SubSeq(after, Len(netloc) + 1, Len(after))
    IN [scheme |-> IF has_scheme THEN Lower(<< u[1] >>) ELSE <<>>,
        netloc |-> netloc,
        path |-> UpTo(tail, {Question})]

\* _is_valid_url: all([result.scheme, result.netloc, result.scheme.lower() in ['http', 'https']])
_is_valid_url(u) ==
    LET r == urlparse(u)
    IN r.scheme # <<>> /\ r.netloc # <<>> /\ Lower(r.scheme) \in { <<"http">>, <<"https">> }

\* the position of the last "/" of a path, 0 when it has none
RECURSIVE LastSlash(_)
LastSlash(p) ==
    IF p = <<>> THEN 0
    ELSE IF p[Len(p)] = Slash THEN Len(p) ELSE LastSlash(SubSeq(p, 1, Len(p) - 1))

\* urljoin(base, href) for a base with scheme and netloc and an href without
\* dot segments: an href with another scheme is returned as it is, one with the
\* base's scheme (and a netloc) with its scheme lowercased, "//host/..." takes
\* the base's scheme, "/..." the base's scheme and netloc, and any other href
\* replaces what follows the last "/" of the base's path.
urljoin(base, href) ==
    LET b == urlparse(base)
        h == urlparse(href)
        root == b.scheme \o << Colon, Slash, Slash >> \o b.netloc
    IN IF href = <<>> THEN base
       ELSE IF h.scheme # <<>> /\ h.scheme # b.scheme THEN href
       ELSE IF h.scheme # <<>> THEN h.scheme \o Tail(href)
       ELSE IF h.netloc # <<>> THEN b.scheme \o << Colon >> \o href
       ELSE IF Head(href) = Slash THEN root \o href
       ELSE IF Head(href) = Question THEN root \o b.path \o href
       ELSE IF b.path = <<>> THEN root \o << Slash >> \o href
       ELSE root \o SubSeq(b.path, 1, LastSlash(b.path)) \o href

\* Variant of IsZipHref: only an href that ends with the extension is taken.
IsZipHrefEndingOnly(href) == EndsWith(Lower(href), << DotZip >>)

\* href_lower.endswith(".zip") or ".zip/" in href_lower
IsZipHref(href) ==
    LET href_lower == Lower(href)
    IN EndsWith(href_lower, << DotZip >>) \/ Contains(href_lower, << DotZip, Slash >>)

\* An anchor of the page: <a> with or without an href attribute.
NoHref == [has_href |-> FALSE, href |-> <<>>]
Anchor(h) == [has_href |-> TRUE, href |-> h]

\* The loop "for link in soup.find_all("a", href=True)" over the anchors
RECURSIVE ZipUrlsOf(_, _)
ZipUrlsOf(u, anchors) ==
    IF anchors = <<>> THEN <<>>
    ELSE LET link == Head(anchors)
             full_url == urljoin(u, link.href)
         IN (IF link.has_href /\ IsZipHref(link.href) /\ _is_valid_url(full_url)
             THEN << full_url >> ELSE <<>>)
            \o ZipUrlsOf(u, Tail(anchors))

\* find_zip_urls: [] for an invalid url and when the request raises
find_zip_urls(u, resp) ==
    IF ~_is_valid_url(u) THEN <<>>
    ELSE IF ~resp.ok THEN <<>>
    ELSE ZipUrlsOf(u, resp.anchors)

IsZipPiece(c) == LowerPiece(c) = DotZip

\* the position of the last extension piece of a segment, 0 when it has none
LastZip(seg) ==
    LET at == { i \in 1..Len(seg) : IsZipPiece(seg[i]) }
    IN IF at = {} THEN 0 ELSE CHOOSE i \in at : \A j \in at : j <= i

\* re.search(r"([^/]+\.zip)", url, re.IGNORECASE) over the segments between
\* slashes, leftmost first: at least one character that is not "/", then the
\* extension, as far to the right as the segment allows; <<>> is no match.
RECURSIVE ZipMatch(_)
ZipMatch(segs) ==
    IF segs = <<>> THEN <<>>
    ELSE IF LastZip(Head(segs)) >= 2 THEN SubSeq(Head(segs), 1, LastZip(Head(segs)))
    ELSE ZipMatch(Tail(segs))

\* Path(p).name: the last non-empty segment of the path, '' when it has none
RECURSIVE LastSegment(_)
LastSegment(segs) ==
    IF segs = <<>> THEN <<>>
    ELSE IF segs[Len(segs)] # <<>> THEN segs[Len(segs)]
    ELSE LastSegment(SubSeq(segs, 1, Len(segs) - 1))

PathName(p) == LastSegment(Segments(p))

DownloadedFileZip == << "downloaded_file", DotZip >>

\* _get_filename_from_url
_get_filename_from_url(u) ==
    LET zip_match == ZipMatch(Segments(u))
        name == PathName(urlparse(u).path)
        filename == IF EndsWith(name, << DotZip >>) THEN name ELSE name \o << DotZip >>
    IN IF zip_match # <<>> THEN zip_match
       ELSE IF filename # <<>> THEN filename ELSE DownloadedFileZip

\* Path(name).stem: the name without its last suffix; a name that is only a
\* leading-dot suffix has no suffix
Stem(name) ==
    IF Len(name) >= 2 /\ IsZipPiece(name[Len(name)]) THEN SubSeq(name, 1, Len(name) - 1)
    ELSE name

-----------------------------------------------------------------------------
(* unify_txt_files: header resolution and the merge of one file.           *)

NoHeaders == [set |-> FALSE, fields |-> <<>>]
NoFail == -1

\* first_line = f.readline().strip()
FirstLine(f) == IF f = <<>> THEN <<>> ELSE Strip(f[1])

\* The loop "for txt_file in txt_files" of the header pass, from file i on;
\* the files of `unreadable` raise when opened or read and are skipped.
RECURSIVE HeaderPass(_, _, _)
HeaderPass(files, unreadable, i) ==
    IF i > Len(files) THEN NoHeaders
    ELSE IF i \in unreadable THEN HeaderPass(files, unreadable, i + 1)
    ELSE IF FirstLine(files[i]) # <<>>
         THEN [set |-> TRUE, fields |-> StripParts(FirstLine(files[i]))]
         ELSE HeaderPass(files, unreadable, i + 1)

\* headers after the header pass and the default
ResolveHeaders(files, unreadable) ==
    LET h == HeaderPass(files, unreadable, 1)
    IN IF h.set THEN h ELSE [set |-> TRUE, fields |-> DefaultHeaders]

\* _write_batch_to_csv: append one line per row
_write_batch_to_csv(file, rows) ==
    File(file.lines \o [i \in 1..Len(rows) |-> Join(rows[i])])

\* The loop "for line_idx, line in enumerate(f)" of one file, at the line of
\* 0-based index i, with the local batch `b`, the rows `w` written so far to the
\* temp file and the count `n` added so far to total_rows.  A read that
\* raises at line fail_at ends the loop: the batch is lost.
RECURSIVE MergeLines(_, _, _, _, _, _, _)
MergeLines(f, bs, fail_at, i, b, w, n) ==
    IF fail_at = i THEN [written |-> w, counted |-> n, failed |-> TRUE]
    ELSE IF i >= Len(f)
    THEN \* "if batch:" after the loop
         IF b # <<>>
         THEN [written |-> w \o b, counted |-> n + Len(b), failed |-> FALSE]
         ELSE [written |-> w, counted |-> n, failed |-> FALSE]
    ELSE LET line == Strip(f[i + 1])
         IN IF line = <<>> \/ i = 0
            THEN MergeLines(f, bs, fail_at, i + 1, b, w, n)
            ELSE LET b2 == Append(b, StripParts(line))
                 IN IF Len(b2) >= bs
                    THEN MergeLines(f, bs, fail_at, i + 1, <<>>, w \o b2, n + Len(b2))
                    ELSE MergeLines(f, bs, fail_at, i + 1, b2, w, n)

\* Variant of MergeOneFile: the first line of the file is merged like any other.
MergeOneFileKeepsFirstLine(f, bs, fail_at) ==
    MergeLines(<< <<>> >> \o f, bs, IF fail_at = NoFail THEN NoFail ELSE fail_at + 1,
               0, <<>>, <<>>, 0)

MergeOneFile(f, bs, fail_at) == MergeLines(f, bs, fail_at, 0, <<>>, <<>>, 0)

-----------------------------------------------------------------------------
(* _validate_pipe_file.                                                    *)

\* [line.strip() for line in f.readlines() if line.strip()]
RECURSIVE NonEmptyLines(_)
NonEmptyLines(ls) ==
    IF ls = <<>> THEN <<>>
    ELSE IF Strip(Head(ls)) # <<>>
         THEN << Strip(Head(ls)) >> \o NonEmptyLines(Tail(ls))
         ELSE NonEmptyLines(Tail(ls))

NumCols(line) == Len(Split(line))

\* motivo: f"Tiene {line_cols} columna(s) pero se esperaban {num_cols}", annotated
\* when "CANCELADO" in line.upper()
Motivo(line_cols, num_cols, line) ==
    << "Tiene " >> \o Str(line_cols) \o << " columna(s) pero se esperaban " >>
        \o Str(num_cols)
        \o (IF Contains(Upper(line), CANCELADO) THEN << " (contiene CANCELADO)" >> ELSE <<>>)

\* error_lines, for idx, line in enumerate(lines[1:], start=2), from idx on
RECURSIVE ErrorLinesFrom(_, _, _)
ErrorLinesFrom(lines, num_cols, idx) ==
    IF idx > Len(lines) THEN <<>>
    ELSE IF NumCols(lines[idx]) # num_cols
         THEN << [num |-> idx, contenido |-> lines[idx],
                  motivo |-> Motivo(NumCols(lines[idx]), num_cols, lines[idx])] >>
              \o ErrorLinesFrom(lines, num_cols, idx + 1)
         ELSE ErrorLinesFrom(lines, num_cols, idx + 1)

ErrorLines(lines) == ErrorLinesFrom(lines, NumCols(lines[1]), 2)

ErrorFileHeader == << "numero_linea", "|", "contenido_linea", "|", "motivo_error" >>

\* Variant of ErrorRow: the pipes of the line are not escaped.
ErrorRowUnescaped(e) == Str(e.num) \o << Pipe >> \o e.contenido \o << Pipe >> \o e.motivo

\* f"{num_linea}|{contenido_escapado}|{motivo}"
ErrorRow(e) == Str(e.num) \o << Pipe >> \o EscapePipes(e.contenido) \o << Pipe >> \o e.motivo

ErrorFile(errs) == File(<< ErrorFileHeader >> \o [i \in 1..Len(errs) |-> ErrorRow(errs[i])])

\* del lines[line_idx - 1]
DeleteLine(lines, k) ==
    SubSeq(lines, 1, k - 1) \o SubSeq(lines, k + 1, Len(lines))

\* Variant of SortedReverse: the indices stay in ascending order.
SortedAscending(s) == s

\* sorted(line_indices_to_remove, reverse=True) of the ascending indices
RECURSIVE SortedReverse(_)
SortedReverse(s) == IF s = <<>> THEN <<>> ELSE SortedReverse(Tail(s)) \o << Head(s) >>

\* for line_idx in sorted(line_indices_to_remove, reverse=True): del lines[line_idx - 1]
RECURSIVE DeleteLines(_, _)
DeleteLines(lines, idxs) ==
    IF idxs = <<>> THEN lines
    ELSE DeleteLines(DeleteLine(lines, Head(idxs)), Tail(idxs))

\* Variant of RemoveErrorLines: the last of the offending lines is kept.
RemoveErrorLinesButLast(lines, errs) ==
    DeleteLines(lines, SortedReverse([i \in 1..(Len(errs) - 1) |-> errs[i].num]))

RemoveErrorLines(lines, errs) ==
    DeleteLines(lines, SortedReverse([i \in 1..Len(errs) |-> errs[i].num]))

\* The outcome of _validate_pipe_file on the dataset file `file`, the quarantine
\* file being `errfile`: [ok, csv, error_csv].
_validate_pipe_file(file, errfile) ==
    LET lines == NonEmptyLines(file.lines)
    IN IF ~file.exists \/ Len(lines) < 2
       THEN [ok |-> FALSE, csv |-> file, error_csv |-> errfile]
       ELSE LET errs == ErrorLines(lines)
            IN IF errs # <<>>
               THEN [ok |-> TRUE, csv |-> File(RemoveErrorLines(lines, errs)),
                     error_csv |-> ErrorFile(errs)]
               ELSE [ok |-> TRUE, csv |-> file, error_csv |-> errfile]

-----------------------------------------------------------------------------
(* _create_sqlite_db.                                                      *)

\* values: parts[idx] if idx < len(parts) else "", for the five fields
StoreValues(line) ==
    LET parts == StripParts(line)
    IN [k \in 1..NumStoreFields |-> IF k <= Len(parts) THEN parts[k] ELSE <<>>]

\* One pass of the loop "for line_idx, line in enumerate(f)" on the connection
\* state st = [rows, pending, batch, insert_count]: rows are committed, pending
\* are inserted in the open transaction.
InsertLineStep(st, raw, bs) ==
    LET line == Strip(raw)
    IN IF line = <<>> THEN st
       ELSE LET b2 == Append(st.batch, StoreValues(line))
            IN IF Len(b2) >= bs
               THEN LET n2 == st.insert_count + Len(b2)
                        p2 == st.pending \o b2
                    IN IF n2 % (bs * CommitEveryBatches) = 0
                       THEN [rows |-> st.rows \o p2, pending |-> <<>>,
                             batch |-> <<>>, insert_count |-> n2]
                       ELSE [rows |-> st.rows, pending |-> p2,
                             batch |-> <<>>, insert_count |-> n2]
               ELSE [st EXCEPT !.batch = b2]

\* "if batch:" after the loop, and the final conn.commit()
FinalCommit(st) ==
    [rows |-> st.rows \o st.pending \o st.batch, pending |-> <<>>, batch |-> <<>>,
     insert_count |-> st.insert_count + Len(st.batch)]

\* conn.rollback() in the except branch
Rollback(st) == [st EXCEPT !.pending = <<>>]

\* get_db_connection: the reader opens whatever file is at the path
ReaderSeesStore(db) == db.exists

-----------------------------------------------------------------------------
(* State machine.                                                          *)

DefaultBatchSize == 1000   \* batch_size: int = 1000 of _create_sqlite_db

NoHist == [csv0 |-> Absent, temp0 |-> Absent, sqlite0 |-> NoDb, error0 |-> Absent,
           header_errors |-> FALSE, read_errors |-> 0, rows |-> <<>>, failed |-> {}, merged |-> Absent, validated_in |-> Absent,
           valid |-> "none", db_calls |-> 0, load_in |-> Absent, load_error |-> FALSE]

\* No call of process_url is running: unify_txt_files, _validate_pipe_file or
\* _create_sqlite_db is called on its own.
NoStats == [found |-> 0, downloaded |-> 0, extracted |-> 0]
NoResponse == [ok |-> FALSE, anchors |-> <<>>]
NoProcessUrl ==
    /\ url = <<>>
    /\ response = NoResponse
    /\ zip_urls = <<>>
    /\ url_idx = 1
    /\ zip_path = <<>>
    /\ stats = NoStats
    /\ archives = {}
    /\ tree = <<>>
    /\ attempts = <<>>
    /\ returned = <<>>

\* A call of unify_txt_files on a directory listing, on top of what an earlier
\* run may have left in data/.
Init ==
    /\ pc = "unify"
    /\ txt_files \in SeqsUpTo(TxtSamples, MaxFiles)
    /\ batch_size \in 1..MaxBatchSize
    /\ db_batch_size = DefaultBatchSize
    /\ headers = NoHeaders
    /\ file_idx = 1
    /\ total_rows = 0
    /\ \E prior \in PriorRuns :
          /\ temp_csv = prior.temp_csv
          /\ csv = prior.csv
          /\ sqlite = prior.sqlite
    /\ error_csv = Absent
    /\ pending = <<>>
    /\ batch = <<>>
    /\ insert_count = 0
    /\ line_idx = 1
    /\ result = "none"
    /\ NoProcessUrl
    /\ hist = [NoHist EXCEPT !.csv0 = csv, !.temp0 = temp_csv, !.sqlite0 = sqlite]

UnifyLocals == << txt_files, batch_size, db_batch_size >>
DbLocals == << pending, batch, insert_count, line_idx >>

\* "if not txt_files: return False"
NoTxtFiles ==
    /\ pc = "unify"
    /\ txt_files = <<>>
    /\ pc' = "done"
    /\ result' = "False"
    /\ UNCHANGED << ProcVars, UnifyLocals, headers, file_idx, total_rows, temp_csv, csv, error_csv,
                    sqlite, DbLocals, hist >>

\* The header pass; any of the files may fail to be read.
DetermineHeaders ==
    /\ pc = "unify"
    /\ txt_files # <<>>
    /\ \E unreadable \in SUBSET (1..Len(txt_files)) :
          /\ Cardinality(unreadable) <= MaxReadErrors
          /\ headers' = ResolveHeaders(txt_files, unreadable)
          /\ hist' = [hist EXCEPT !.header_errors = (unreadable # {}),
                                  !.read_errors = Cardinality(unreadable)]
    /\ pc' = "write_header"
    /\ UNCHANGED << ProcVars, UnifyLocals, file_idx, total_rows, temp_csv, csv, error_csv, sqlite,
                    DbLocals, result >>

\* Variant of WriteHeader: the header is written to the final path.
WriteHeaderToFinal ==
    /\ pc = "write_header"
    /\ csv' = File(<< Join(headers.fields) >>)
    /\ file_idx' = 1
    /\ total_rows' = 0
    /\ pc' = "merge"
    /\ UNCHANGED << ProcVars, UnifyLocals, headers, temp_csv, error_csv, sqlite, DbLocals, result,
                    hist >>

\* Variant of WriteHeader: the header is appended to what the temp file holds.
WriteHeaderAppends ==
    /\ pc = "write_header"
    /\ temp_csv' = File(temp_csv.lines \o << Join(headers.fields) >>)
    /\ file_idx' = 1
    /\ total_rows' = 0
    /\ pc' = "merge"
    /\ UNCHANGED << ProcVars, UnifyLocals, headers, csv, error_csv, sqlite, DbLocals, result, hist >>

\* open(temp_csv_path, "w"): the header is the only line of the temp file
WriteHeader ==
    /\ pc = "write_header"
    /\ temp_csv' = File(<< Join(headers.fields) >>)
    /\ file_idx' = 1
    /\ total_rows' = 0
    /\ pc' = "merge"
    /\ UNCHANGED << ProcVars, UnifyLocals, headers, csv, error_csv, sqlite, DbLocals, result, hist >>

\* Variant of MergeFile: only the first listed file's first line is skipped.
MergeFileSkipsFirstHeaderOnly ==
    /\ pc = "merge"
    /\ file_idx <= Len(txt_files)
    /\ \E fail_at \in {NoFail} \cup (0..Len(txt_files[file_idx])) :
          LET m == IF file_idx = 1
                   THEN MergeOneFile(txt_files[file_idx], batch_size, fail_at)
                   ELSE MergeOneFileKeepsFirstLine(txt_files[file_idx], batch_size, fail_at)
          IN /\ fail_at # NoFail => hist.read_errors < MaxReadErrors
             /\ temp_csv' = _write_batch_to_csv(temp_csv, m.written)
             /\ total_rows' = total_rows + m.counted
             /\ hist' = [hist EXCEPT
                            !.rows = @ \o [i \in 1..Len(m.written) |-> Join(m.written[i])],
                            !.failed = IF m.failed THEN @ \cup {file_idx} ELSE @,
                            !.read_errors = IF m.failed THEN @ + 1 ELSE @]
    /\ file_idx' = file_idx + 1
    /\ UNCHANGED << ProcVars, pc, UnifyLocals, headers, csv, error_csv, sqlite, DbLocals, result >>

\* One pass of the loop "for txt_file in txt_files" of the merge; the read may
\* raise at any line of the file.
MergeFile ==
    /\ pc = "merge"
    /\ file_idx <= Len(txt_files)
    /\ \E fail_at \in {NoFail} \cup (0..Len(txt_files[file_idx])) :
          LET m == MergeOneFile(txt_files[file_idx], batch_size, fail_at)
          IN /\ fail_at # NoFail => hist.read_errors < MaxReadErrors
             /\ temp_csv' = _write_batch_to_csv(temp_csv, m.written)
             /\ total_rows' = total_rows + m.counted
             /\ hist' = [hist EXCEPT
                            !.rows = @ \o [i \in 1..Len(m.written) |-> Join(m.written[i])],
                            !.failed = IF m.failed THEN @ \cup {file_idx} ELSE @,
                            !.read_errors = IF m.failed THEN @ + 1 ELSE @]
    /\ file_idx' = file_idx + 1
    /\ UNCHANGED << ProcVars, pc, UnifyLocals, headers, csv, error_csv, sqlite, DbLocals, result >>

\* Variant of NoRows: the temp file is left in place.
NoRowsKeepsTemp ==
    /\ pc = "merge"
    /\ file_idx > Len(txt_files)
    /\ total_rows = 0
    /\ pc' = "done"
    /\ result' = "False"
    /\ UNCHANGED << ProcVars, UnifyLocals, headers, file_idx, total_rows, temp_csv, csv, error_csv,
                    sqlite, DbLocals, hist >>

\* "if total_rows == 0": temp_csv_path.unlink(); return False
NoRows ==
    /\ pc = "merge"
    /\ file_idx > Len(txt_files)
    /\ total_rows = 0
    /\ temp_csv' = Absent
    /\ pc' = "done"
    /\ result' = "False"
    /\ UNCHANGED << ProcVars, UnifyLocals, headers, file_idx, total_rows, csv, error_csv, sqlite,
                    DbLocals, hist >>

\* "if csv_path.exists(): csv_path.unlink()"
UnlinkFinal ==
    /\ pc = "merge"
    /\ file_idx > Len(txt_files)
    /\ total_rows > 0
    /\ csv' = Absent
    /\ pc' = "rename"
    /\ UNCHANGED << ProcVars, UnifyLocals, headers, file_idx, total_rows, temp_csv, error_csv, sqlite,
                    DbLocals, result, hist >>

\* temp_csv_path.rename(csv_path)
RenameTemp ==
    /\ pc = "rename"
    /\ csv' = temp_csv
    /\ temp_csv' = Absent
    /\ hist' = [hist EXCEPT !.merged = temp_csv]
    /\ pc' = "validate"
    /\ UNCHANGED << ProcVars, UnifyLocals, headers, file_idx, total_rows, error_csv, sqlite, DbLocals,
                    result >>

\* The process is interrupted during the merge (KeyboardInterrupt is no
\* Exception: no handler of unify_txt_files runs).
Interrupt ==
    /\ pc \in {"unify", "write_header", "merge", "rename", "validate"}
    /\ hist.valid = "none"
    /\ pc' = "interrupted"
    /\ UNCHANGED << ProcVars, UnifyLocals, headers, file_idx, total_rows, temp_csv, csv, error_csv,
                    sqlite, DbLocals, result, hist >>

\* Variant of _validate_pipe_file in unify_txt_files: its return value is ignored.
ValidateResultIgnored ==
    /\ pc = "validate"
    /\ \E io_error \in BOOLEAN :
          LET v == _validate_pipe_file(csv, error_csv)
              ok == v.ok /\ ~io_error
          IN /\ csv' = IF io_error THEN csv ELSE v.csv
             /\ error_csv' = IF io_error THEN error_csv ELSE v.error_csv
             /\ hist' = [hist EXCEPT !.validated_in = csv,
                                     !.valid = IF ok THEN "ok" ELSE "fail"]
             /\ pc' = "load"
             /\ result' = result
    /\ UNCHANGED << ProcVars, UnifyLocals, headers, file_idx, total_rows, temp_csv, sqlite, DbLocals >>

\* self._validate_pipe_file(csv_path); reading the file may raise
CallValidatePipeFile ==
    /\ pc = "validate"
    /\ \E io_error \in BOOLEAN :
          LET v == _validate_pipe_file(csv, error_csv)
              ok == v.ok /\ ~io_error
          IN /\ csv' = IF io_error THEN csv ELSE v.csv
             /\ error_csv' = IF io_error THEN error_csv ELSE v.error_csv
             /\ hist' = [hist EXCEPT !.validated_in = csv,
                                     !.valid = IF ok THEN "ok" ELSE "fail"]
             /\ pc' = IF ok THEN "load" ELSE "done"
             /\ result' = IF ok THEN result ELSE "False"
    /\ UNCHANGED << ProcVars, UnifyLocals, headers, file_idx, total_rows, temp_csv, sqlite, DbLocals >>

ConnState == [rows |-> sqlite.rows, pending |-> pending, batch |-> batch,
              insert_count |-> insert_count]

\* Variant of CreateTable: the old store is not unlinked (CREATE TABLE IF NOT EXISTS).
CreateTableKeepsOldStore ==
    /\ pc = "load"
    /\ sqlite' = [exists |-> TRUE, rows |-> sqlite.rows]
    /\ pending' = <<>>
    /\ batch' = <<>>
    /\ insert_count' = 0
    /\ line_idx' = 2
    /\ hist' = [hist EXCEPT !.db_calls = @ + 1, !.load_in = csv]
    /\ pc' = "load_rows"
    /\ UNCHANGED << ProcVars, UnifyLocals, headers, file_idx, total_rows, temp_csv, csv, error_csv,
                    result >>

\* _create_sqlite_db up to the table: unlink the old store, connect, CREATE TABLE
CreateTable ==
    /\ pc = "load"
    /\ sqlite' = [exists |-> TRUE, rows |-> <<>>]
    /\ pending' = <<>>
    /\ batch' = <<>>
    /\ insert_count' = 0
    /\ line_idx' = 2            \* header = f.readline()
    /\ hist' = [hist EXCEPT !.db_calls = @ + 1, !.load_in = csv]
    /\ pc' = "load_rows"
    /\ UNCHANGED << ProcVars, UnifyLocals, headers, file_idx, total_rows, temp_csv, csv, error_csv,
                    result >>

\* one line of the dataset
InsertLine ==
    /\ pc = "load_rows"
    /\ line_idx <= Len(csv.lines)
    /\ LET st == InsertLineStep(ConnState, csv.lines[line_idx], db_batch_size)
       IN /\ sqlite' = [sqlite EXCEPT !.rows = st.rows]
          /\ pending' = st.pending
          /\ batch' = st.batch
          /\ insert_count' = st.insert_count
    /\ line_idx' = line_idx + 1
    /\ UNCHANGED << ProcVars, pc, UnifyLocals, headers, file_idx, total_rows, temp_csv, csv, error_csv,
                    result, hist >>

\* the last batch, the final commit, return True
FinishLoad ==
    /\ pc = "load_rows"
    /\ line_idx > Len(csv.lines)
    /\ LET st == FinalCommit(ConnState)
       IN /\ sqlite' = [sqlite EXCEPT !.rows = st.rows]
          /\ pending' = st.pending
          /\ batch' = st.batch
          /\ insert_count' = st.insert_count
    /\ pc' = "done"
    /\ result' = "True"
    /\ UNCHANGED << ProcVars, UnifyLocals, headers, file_idx, total_rows, temp_csv, csv, error_csv,
                    line_idx, hist >>

\* "except Exception": conn.rollback(); conn.close(); return False
LoadError ==
    /\ pc = "load_rows"
    /\ LET st == Rollback(ConnState)
       IN /\ sqlite' = [sqlite EXCEPT !.rows = st.rows]
          /\ pending' = st.pending
    /\ hist' = [hist EXCEPT !.load_error = TRUE]
    /\ pc' = "done"
    /\ result' = "False"
    /\ UNCHANGED << ProcVars, UnifyLocals, headers, file_idx, total_rows, temp_csv, csv, error_csv,
                    batch, insert_count, line_idx >>

Next ==
    \/ NoTxtFiles
    \/ DetermineHeaders
    \/ WriteHeader
    \/ MergeFile
    \/ NoRows
    \/ UnlinkFinal
    \/ RenameTemp
    \/ Interrupt
    \/ CallValidatePipeFile
    \/ CreateTable
    \/ InsertLine
    \/ FinishLoad
    \/ LoadError

Spec == Init /\ [][Next]_vars

-----------------------------------------------------------------------------
(* Properties of unify_txt_files (specification Spec).                     *)

Range(s) == { s[i] : i \in DOMAIN s }

\* the multiset of the elements of a sequence
BagOfSeq(s) == [x \in Range(s) |-> Cardinality({ i \in DOMAIN s : s[i] = x })]

RECURSIVE Concat(_)
Concat(ss) == IF ss = <<>> THEN <<>> ELSE Head(ss) \o Concat(Tail(ss))

MergeDone == file_idx > Len(txt_files)

\* the header and every row the merge loop produced
NewDatasetLines == << Join(headers.fields) >> \o hist.rows

\* ruc.csv is the complete output of this merge
FinalIsCompleteNew == csv.exists /\ MergeDone /\ total_rows > 0 /\ csv.lines = NewDatasetLines

MergePhase == {"unify", "write_header", "merge", "rename", "validate", "interrupted"}

\* C1: if a complete ruc.csv existed before unify_txt_files started and the
\* process is interrupted at any step of the merge, the final path still holds a
\* complete dataset: the previous one unchanged, or the complete new one.
C1_InterruptKeepsCompleteFinal ==
    (pc = "interrupted" /\ hist.csv0.exists) =>
        (csv = hist.csv0 \/ FinalIsCompleteNew)

\* C2: during the merge phase, up to and including the rename, header and rows
\* are written to ruc_temp.csv only: ruc.csv is what it was before the call, or
\* is absent (deleted just before the rename), or is the complete merge output;
\* it never holds a partially written merge output.
C2_NoPartialFinal ==
    (pc \in MergePhase) =>
        /\ (csv = hist.csv0 \/ ~csv.exists \/ FinalIsCompleteNew)
        /\ (pc \in {"unify", "write_header", "merge"} => csv = hist.csv0)
        /\ (pc \in {"merge", "rename"} => temp_csv = File(NewDatasetLines))

C2_Witness ==
    /\ pc = "merge"
    /\ file_idx = 2
    /\ Len(txt_files) = 2
    /\ hist.rows # <<>>
    /\ csv = OldCsv

\* C3: when the merge collects zero data rows over all flat files,
\* unify_txt_files returns False, ruc_temp.csv no longer exists and ruc.csv is
\* what it was before the call.
C3_ZeroRowsFails ==
    (txt_files # <<>> /\ MergeDone /\ total_rows = 0
        /\ pc \notin {"unify", "write_header", "merge", "interrupted"}) =>
        /\ pc = "done"
        /\ result = "False"
        /\ ~temp_csv.exists
        /\ csv = hist.csv0

C3_Witness ==
    /\ pc = "done"
    /\ txt_files # <<>>
    /\ total_rows = 0
    /\ result = "False"
    /\ hist.temp0 = StaleTemp
    /\ csv = OldCsv

\* C4: as long as unify_txt_files has not passed validation (no flat file, zero
\* rows merged, validator returned failure), ruc.sqlite is what it was before the
\* call and _create_sqlite_db has not been invoked.
C4_StoreUntouchedBeforeLoad ==
    (hist.valid # "ok") =>
        /\ sqlite = hist.sqlite0
        /\ hist.db_calls = 0
        /\ pc \notin {"load", "load_rows"}

C4_Witness ==
    /\ pc = "done"
    /\ result = "False"
    /\ hist.valid = "fail"
    /\ hist.merged.exists
    /\ sqlite = OldDb

\* the data rows a flat file contributes: its non-empty lines after the first,
\* each split on "|", trimmed and joined
ExpectedFileRows(f) ==
    LET rest == SelectSeq([i \in 1..Len(f) |-> [n |-> i, text |-> Strip(f[i])]],
                          LAMBDA l : l.n > 1 /\ l.text # <<>>)
    IN [i \in 1..Len(rest) |-> Join(StripParts(rest[i].text))]

ExpectedRows(files) == Concat([i \in 1..Len(files) |-> ExpectedFileRows(files[i])])

AllFilesRead == hist.failed = {} /\ ~hist.header_errors

MergedLines(files, bs) ==
    << Join(ResolveHeaders(files, {}).fields) >>
        \o Concat([i \in 1..Len(files) |->
                     LET w == MergeOneFile(files[i], bs, NoFail).written
                     IN [k \in 1..Len(w) |-> Join(w[k])]])
ValidatedLines(files, bs) == _validate_pipe_file(File(MergedLines(files, bs)), Absent).csv.lines

\* C10 as stated: for a fixed set of flat files, the multiset of data rows of
\* the dataset unify_txt_files produces is the same for every listing order.
C10_RowsSameInEveryOrder ==
    (pc = "load" /\ AllFilesRead) =>
        \A p \in ListingOrders(Len(txt_files)) :
            BagOfSeq(Tail(ValidatedLines(Reorder(txt_files, p), batch_size)))
                = BagOfSeq(Tail(csv.lines))

\* C10 amended: for a fixed set of flat files, all read, the multiset of data
\* rows of the merged dataset (before validation) is the same for every listing
\* order; the validated dataset has the same multiset in any two orders whose
\* header has the same number of fields.
C10_MergedRowsSameInEveryOrder ==
    (pc \in {"validate", "load"} /\ AllFilesRead) =>
        \A p \in ListingOrders(Len(txt_files)) :
            LET other == Reorder(txt_files, p)
            IN /\ BagOfSeq(Tail(MergedLines(other, batch_size)))
                    = BagOfSeq(Tail(hist.merged.lines))
               /\ (pc = "load"
                     /\ NumCols(MergedLines(other, batch_size)[1]) = NumCols(hist.merged.lines[1]))
                  => BagOfSeq(Tail(ValidatedLines(other, batch_size)))
                        = BagOfSeq(Tail(csv.lines))

C10_Witness ==
    /\ pc = "load"
    /\ AllFilesRead
    /\ txt_files = << TxtShort, TxtA >>
    /\ BagOfSeq(Tail(ValidatedLines(<< TxtA, TxtShort >>, batch_size)))
          # BagOfSeq(Tail(csv.lines))

-----------------------------------------------------------------------------
(* _validate_pipe_file on the datasets the merge can produce                *)
(* (specification SpecValidate).                                           *)

\* Data rows as the merge writes them: every field trimmed.
Row5 == << "1", "|", "A", "|", "1", "|", "0", "|", "activo" >>
Row5Empty == << "5", "|", "|", "5", "|", "0", "|" >>
Row5NoDv == << "1", "|", "A", "|", "|", "0", "|", "activo" >>
Row6 == << "9", "|", "I", "|", "9", "|", "0", "|", "activo", "|", "y" >>
Row6Cancelado == << "3", "|", "C", "|", "3", "|", "0", "|", "Cancelado", "|", "x" >>
Row3 == << "7", "|", "G", "|", "7" >>
Row2 == << "4", "|", "D" >>
Row2Empty == << "4", "|" >>

RowSamples == { Row5, Row5Empty, Row6, Row6Cancelado, Row3, Row2 }
HeaderSamples == { HeaderLine, ShortHeaderLine }

\* error.csv of an earlier run
OldErrorCsv ==
    File(<< ErrorFileHeader,
            << "2", "|", "0", "\\", "|", "old", "|",
               "Tiene ", "2", " columna(s) pero se esperaban ", "5" >> >>)

InitValidate ==
    /\ pc = "validate"
    /\ \E h \in HeaderSamples, rows \in SeqsUpTo(RowSamples, MaxDataRows) :
          /\ rows # <<>>
          /\ csv = File(<< h >> \o rows)
    /\ error_csv \in {Absent, OldErrorCsv}
    /\ txt_files = <<>>
    /\ batch_size = DefaultBatchSize
    /\ db_batch_size = DefaultBatchSize
    /\ headers = NoHeaders
    /\ file_idx = 1
    /\ total_rows = 0
    /\ temp_csv = Absent
    /\ sqlite = NoDb
    /\ pending = <<>>
    /\ batch = <<>>
    /\ insert_count = 0
    /\ line_idx = 1
    /\ result = "none"
    /\ NoProcessUrl
    /\ hist = [NoHist EXCEPT !.csv0 = csv, !.error0 = error_csv]

NextValidate == CallValidatePipeFile

SpecValidate == InitValidate /\ [][NextValidate]_vars

\* the dataset as the validator found it, and its lines of another width than
\* the header's
ValidatedIn == hist.validated_in.lines
Offending ==
    { i \in 2..Len(ValidatedIn) : NumCols(ValidatedIn[i]) # NumCols(ValidatedIn[1]) }

\* C5: after _validate_pipe_file returns True, every data line of the dataset
\* file splits on "|" into as many fields as the header line.
C5_UniformColumns ==
    (hist.valid = "ok") =>
        \A i \in 2..Len(csv.lines) : NumCols(csv.lines[i]) = NumCols(csv.lines[1])

C5_Witness ==
    /\ hist.valid = "ok"
    /\ Cardinality(Offending) >= 2
    /\ Len(csv.lines) >= 2
    /\ csv # hist.validated_in

\* "Tiene N columna(s) pero se esperaban M"
PlainReason(line, header) ==
    << "Tiene " >> \o Str(NumCols(line)) \o << " columna(s) pero se esperaban " >>
        \o Str(NumCols(header))

MentionsCancelado(line) == \E i \in 1..Len(line) : UpperPiece(line[i]) = "CANCELADO"

AnnotatedReason(line, header) ==
    PlainReason(line, header)
        \o (IF MentionsCancelado(line) THEN << " (contiene CANCELADO)" >> ELSE <<>>)

\* 'line_number|escaped_raw_line|reason'
QuarantineRow(n, line, reason) ==
    Str(n) \o << Pipe >> \o EscapePipes(line) \o << Pipe >> \o reason

TimesQuarantined(row) ==
    Cardinality({ k \in 2..Len(error_csv.lines) : error_csv.lines[k] = row })

LinesRemoved == Len(ValidatedIn) - Len(csv.lines)

\* C6 as stated: every line the validator removes is exactly once in error.csv,
\* as 'line_number|escaped_raw_line|reason' with its 1-based line number and the
\* reason 'Tiene N columna(s) pero se esperaban M'; no line is removed without
\* such a row.
C6_QuarantinedWithPlainReason ==
    (hist.valid = "ok") =>
        /\ LinesRemoved = Cardinality(Offending)
        /\ \A i \in Offending :
              TimesQuarantined(QuarantineRow(i, ValidatedIn[i],
                                             PlainReason(ValidatedIn[i], ValidatedIn[1]))) = 1

\* C6 amended: the same, the reason being 'Tiene N columna(s) pero se esperaban
\* M' followed by ' (contiene CANCELADO)' when the line contains "CANCELADO" in
\* any letter case.
C6_QuarantinedWithReason ==
    (hist.valid = "ok") =>
        /\ LinesRemoved = Cardinality(Offending)
        /\ Offending # {} => Len(error_csv.lines) = 1 + Cardinality(Offending)
        /\ \A i \in Offending :
              TimesQuarantined(QuarantineRow(i, ValidatedIn[i],
                                             AnnotatedReason(ValidatedIn[i], ValidatedIn[1]))) = 1

C6_Witness ==
    /\ hist.valid = "ok"
    /\ hist.error0 = OldErrorCsv
    /\ \E i, j \in Offending :
          /\ i < j
          /\ MentionsCancelado(ValidatedIn[i])
          /\ ~MentionsCancelado(ValidatedIn[j])
          /\ ValidatedIn[j] = Row6

-----------------------------------------------------------------------------
(* _create_sqlite_db on the datasets validation can leave                   *)
(* (specification SpecLoad).                                               *)

LongHeaderLine == HeaderLine \o << "|", "extra" >>

\* validated datasets: every row has the header's number of fields
LoadSamples ==
    { [header |-> HeaderLine, rows |-> { Row5, Row5Empty, Row5NoDv }, fill |-> Row5],
      [header |-> ShortHeaderLine, rows |-> { Row2, Row2Empty }, fill |-> Row2],
      [header |-> LongHeaderLine, rows |-> { Row6, Row6Cancelado }, fill |-> Row6] }

InitLoad ==
    /\ pc = "load"
    /\ \E s \in LoadSamples, k \in 0..MaxFill :
          \E varied \in SeqsUpTo(s.rows, MaxVaried) :
              csv = File(<< s.header >> \o varied \o [i \in 1..k |-> s.fill])
    /\ db_batch_size \in 1..MaxBatchSize
    /\ sqlite \in {NoDb, OldDb}
    /\ error_csv = Absent
    /\ txt_files = <<>>
    /\ batch_size = DefaultBatchSize
    /\ headers = NoHeaders
    /\ file_idx = 1
    /\ total_rows = 0
    /\ temp_csv = Absent
    /\ pending = <<>>
    /\ batch = <<>>
    /\ insert_count = 0
    /\ line_idx = 1
    /\ result = "none"
    /\ NoProcessUrl
    /\ hist = [NoHist EXCEPT !.csv0 = csv, !.sqlite0 = sqlite, !.valid = "ok"]

NextLoad ==
    \/ CreateTable
    \/ InsertLine
    \/ FinishLoad
    \/ LoadError

SpecLoad == InitLoad /\ [][NextLoad]_vars

\* the trimmed field at 0-based position k of a line, '' when it has none
FieldAt(line, k) ==
    LET fields == Split(Strip(line))
    IN IF k < Len(fields) THEN Strip(fields[k + 1]) ELSE <<>>

\* (ruc, razon_social, dv, ruc_anterior, estado) of the non-empty data lines
ExpectedStoreRows(ls) ==
    LET data == SelectSeq(Tail(ls), LAMBDA l : Strip(l) # <<>>)
    IN [i \in 1..Len(data) |-> [k \in 1..NumStoreFields |-> FieldAt(data[i], k - 1)]]

\* C7: after _create_sqlite_db returns True, whatever the destination held
\* before, the store's rows in id order are one row per non-empty data line of
\* the dataset, in dataset order, with the trimmed fields at positions 0..4 and
\* '' for a position the line does not have; no row of a previous store is left.
C7_StoreMatchesDataset ==
    (pc = "done" /\ result = "True") =>
        /\ sqlite.exists
        /\ sqlite.rows = ExpectedStoreRows(csv.lines)
        /\ pending = <<>> /\ batch = <<>>

C7_Witness ==
    /\ pc = "done"
    /\ result = "True"
    /\ hist.sqlite0 = OldDb
    /\ db_batch_size = 1
    /\ Len(sqlite.rows) > CommitEveryBatches
    /\ sqlite.rows[1] = << <<"4">>, <<>>, <<>>, <<>>, <<>> >>

StartedInserting == insert_count > 0 \/ batch # <<>>

\* C8: if _create_sqlite_db fails after it started inserting, it returns False
\* and the store file does not hold a committed part of the dataset's rows that
\* a reader takes for the current store.
C8_NoPartialStoreAfterFailure ==
    (pc = "done" /\ hist.load_error /\ StartedInserting) =>
        /\ result = "False"
        /\ ~(/\ ReaderSeesStore(sqlite)
             /\ sqlite.rows # <<>>
             /\ Len(sqlite.rows) < Len(ExpectedStoreRows(csv.lines)))

-----------------------------------------------------------------------------
(* process_url: discovery, one download and extraction per URL, then the    *)
(* merge (specification SpecProcess).                                       *)

MaxLinks == 2        \* anchors of the fetched page

\* The page URL the operator gives.
ExampleCom == << "https", ":", "/", "/", "example.com" >>
InvalidUrl == << "invalid-url" >>
ProcessUrls == { ExampleCom, InvalidUrl }

\* Anchors of the page: two archives, a link that is none, and a link whose
\* name is the extension alone.
File1Zip == << "file1", ".zip" >>
File2Zip == << "path", "/", "to", "/", "file2", ".zip" >>
NotAZip == << "notazip.txt" >>
OnlyDotZip == << ".zip" >>
ProcessAnchors == { Anchor(File1Zip), Anchor(File2Zip), Anchor(NotAZip), Anchor(OnlyDotZip) }

\* What a download writes: a file that is no archive, or an archive of one
\* flat file.
Corrupt == [valid |-> FALSE, lines |-> <<>>]
ZipOf(f) == [valid |-> TRUE, lines |-> f]
ArchiveSamples == { Corrupt, ZipOf(TxtA), ZipOf(TxtHeaderOnly) }

\* output_dir is never emptied: the flat file an earlier completed run
\* extracted from file1.zip is still under output_dir/file1 when the next run
\* starts, and it is the file that run's dataset was merged from.
StaleTxt == << HeaderLine, OldCsv.lines[2] >>
StaleTree == << [dir |-> Stem(File1Zip), lines |-> StaleTxt] >>
TreeLeftBy(prior_csv) == IF prior_csv.exists THEN StaleTree ELSE <<>>

\* data/ before process_url: a first run, a completed run.
ProcessPriors == { prior \in PriorRuns : ~prior.temp_csv.exists /\ prior.csv.exists = prior.sqlite.exists }

InitProcess ==
    /\ pc = "process_url"
    /\ url \in ProcessUrls
    /\ response \in {NoResponse}
          \cup { [ok |-> TRUE, anchors |-> a] : a \in SeqsUpTo(ProcessAnchors, MaxLinks) }
    /\ zip_urls = <<>>
    /\ url_idx = 1
    /\ zip_path = <<>>
    /\ stats = NoStats
    /\ archives = {}
    /\ attempts = <<>>
    /\ returned = <<>>
    /\ txt_files = <<>>
    /\ batch_size = DefaultBatchSize
    /\ db_batch_size = DefaultBatchSize
    /\ headers = NoHeaders
    /\ file_idx = 1
    /\ total_rows = 0
    /\ \E prior \in ProcessPriors :
          /\ temp_csv = prior.temp_csv
          /\ csv = prior.csv
          /\ sqlite = prior.sqlite
          /\ tree = TreeLeftBy(prior.csv)
    /\ error_csv = Absent
    /\ pending = <<>>
    /\ batch = <<>>
    /\ insert_count = 0
    /\ line_idx = 1
    /\ result = "none"
    /\ hist = [NoHist EXCEPT !.csv0 = csv, !.temp0 = temp_csv, !.sqlite0 = sqlite]

UnifyVars == << txt_files, batch_size, db_batch_size, headers, file_idx, total_rows, temp_csv,
                csv, error_csv, sqlite, pending, batch, insert_count, line_idx, result, hist >>

\* Variant of NoZipUrls: the merge is started although no URL was found.
NoZipUrlsStillMerges ==
    /\ pc = "process_url"
    /\ find_zip_urls(url, response) = <<>>
    /\ zip_urls' = <<>>
    /\ pc' = "unify"
    /\ UNCHANGED << UnifyVars, url, response, url_idx, zip_path, stats, archives, tree,
                    attempts, returned >>

\* "if not zip_urls: return {"found": 0, "downloaded": 0, "extracted": 0}"
NoZipUrls ==
    /\ pc = "process_url"
    /\ find_zip_urls(url, response) = <<>>
    /\ zip_urls' = <<>>
    /\ returned' = << [found |-> 0, downloaded |-> 0, extracted |-> 0] >>
    /\ pc' = "returned"
    /\ UNCHANGED << UnifyVars, url, response, url_idx, zip_path, stats, archives, tree,
                    attempts >>

\* zip_urls = self.find_zip_urls(url); stats = {"found": len(zip_urls), ...}
FindZipUrls ==
    /\ pc = "process_url"
    /\ find_zip_urls(url, response) # <<>>
    /\ zip_urls' = find_zip_urls(url, response)
    /\ stats' = [found |-> Len(zip_urls'), downloaded |-> 0, extracted |-> 0]
    /\ url_idx' = 1
    /\ pc' = "download"
    /\ UNCHANGED << UnifyVars, url, response, zip_path, archives, tree, attempts, returned >>

\* output_dir / name is (over)written with the content
WriteArchive(files, name, content) ==
    { a \in files : a.name # name } \cup { [name |-> name, content |-> content] }

DownloadOutcomes ==
    { [error |-> e, content |-> Corrupt] : e \in {"request", "io"} }
        \cup { [error |-> "none", content |-> c] : c \in ArchiveSamples }

\* Variant of DownloadFile: a download that fails ends the loop.
DownloadFileStopsOnError ==
    /\ pc = "download"
    /\ url_idx <= Len(zip_urls)
    /\ \E outcome \in DownloadOutcomes :
          LET zip_url == zip_urls[url_idx]
              filename == _get_filename_from_url(zip_url)
              ok == _is_valid_url(zip_url) /\ outcome.error = "none"
          IN /\ archives' = IF ~_is_valid_url(zip_url) \/ outcome.error = "request"
                            THEN archives
                            ELSE WriteArchive(archives, filename, outcome.content)
             /\ zip_path' = IF ok THEN filename ELSE <<>>
             /\ stats' = IF ok THEN [stats EXCEPT !.downloaded = @ + 1] ELSE stats
             /\ attempts' = Append(attempts, [url |-> zip_url, downloaded |-> ok,
                                              extracted |-> "none"])
             /\ pc' = IF ok THEN "extract" ELSE "download"
             /\ url_idx' = IF ok THEN url_idx ELSE Len(zip_urls) + 1
    /\ UNCHANGED << UnifyVars, url, response, zip_urls, tree, returned >>

\* zip_path = self.download_file(zip_url): None for a URL that is not valid,
\* when the request raises (nothing is written) and when writing raises (what
\* was written stays); else the path of the written file.
DownloadFile ==
    /\ pc = "download"
    /\ url_idx <= Len(zip_urls)
    /\ \E outcome \in DownloadOutcomes :
          LET zip_url == zip_urls[url_idx]
              filename == _get_filename_from_url(zip_url)
              ok == _is_valid_url(zip_url) /\ outcome.error = "none"
          IN /\ archives' = IF ~_is_valid_url(zip_url) \/ outcome.error = "request"
                            THEN archives
                            ELSE WriteArchive(archives, filename, outcome.content)
             /\ zip_path' = IF ok THEN filename ELSE <<>>
             /\ stats' = IF ok THEN [stats EXCEPT !.downloaded = @ + 1] ELSE stats
             /\ attempts' = Append(attempts, [url |-> zip_url, downloaded |-> ok,
                                              extracted |-> "none"])
             /\ pc' = IF ok THEN "extract" ELSE "download"
             /\ url_idx' = IF ok THEN url_idx ELSE url_idx + 1
    /\ UNCHANGED << UnifyVars, url, response, zip_urls, tree, returned >>

\* the flat file of the archive is written under output_dir / dir
Extracted(files, dir, lines) ==
    IF \E i \in 1..Len(files) : files[i].dir = dir
    THEN [i \in 1..Len(files) |->
             IF files[i].dir = dir THEN [dir |-> dir, lines |-> lines] ELSE files[i]]
    ELSE Append(files, [dir |-> dir, lines |-> lines])

ArchiveAt(name) == CHOOSE a \in archives : a.name = name

\* Variant of ExtractZip: the archive is unlinked whatever the extraction gave.
ExtractZipAlwaysUnlinks ==
    /\ pc = "extract"
    /\ \E outcome \in {"ok", "error", "unlink_error"} :
          LET extract_dir == Stem(zip_path)
              zip == ArchiveAt(zip_path).content
              entries == zip.valid /\ extract_dir # zip_path /\ outcome # "error"
              ok == entries /\ outcome = "ok"
          IN /\ tree' = IF entries THEN Extracted(tree, extract_dir, zip.lines) ELSE tree
             /\ archives' = archives \ {ArchiveAt(zip_path)}
             /\ stats' = IF ok THEN [stats EXCEPT !.extracted = @ + 1] ELSE stats
             /\ attempts' = [attempts EXCEPT ![Len(attempts)].extracted =
                                                 IF ok THEN "True" ELSE "False"]
    /\ url_idx' = url_idx + 1
    /\ pc' = "download"
    /\ UNCHANGED << UnifyVars, url, response, zip_urls, zip_path, returned >>

\* self.extract_zip(zip_path): mkdir of the directory, extractall, unlink of
\* the archive, return True; BadZipFile and any other exception return False.
ExtractZip ==
    /\ pc = "extract"
    /\ \E outcome \in {"ok", "error", "unlink_error"} :
          LET extract_dir == Stem(zip_path)
              zip == ArchiveAt(zip_path).content
              \* mkdir(exist_ok=True) raises on the archive's own path
              entries == zip.valid /\ extract_dir # zip_path /\ outcome # "error"
              ok == entries /\ outcome = "ok"
          IN /\ tree' = IF entries THEN Extracted(tree, extract_dir, zip.lines) ELSE tree
             /\ archives' = IF ok THEN archives \ {ArchiveAt(zip_path)} ELSE archives
             /\ stats' = IF ok THEN [stats EXCEPT !.extracted = @ + 1] ELSE stats
             /\ attempts' = [attempts EXCEPT ![Len(attempts)].extracted =
                                                 IF ok THEN "True" ELSE "False"]
    /\ url_idx' = url_idx + 1
    /\ pc' = "download"
    /\ UNCHANGED << UnifyVars, url, response, zip_urls, zip_path, returned >>

\* Variant of CallUnify: the merge does not wait for the end of the loop.
CallUnifyInsideLoop ==
    /\ pc = "download"
    /\ \E p \in ListingOrders(Len(tree)) :
          txt_files' = [i \in 1..Len(tree) |-> tree[p[i]].lines]
    /\ pc' = "unify"
    /\ UNCHANGED << ProcVars, batch_size, db_batch_size, headers, file_idx, total_rows,
                    temp_csv, csv, error_csv, sqlite, pending, batch, insert_count, line_idx,
                    result, hist >>

\* self.unify_txt_files() after the loop: the flat files under output_dir in
\* the order the directory listing gives them
CallUnify ==
    /\ pc = "download"
    /\ url_idx > Len(zip_urls)
    /\ \E p \in ListingOrders(Len(tree)) :
          txt_files' = [i \in 1..Len(tree) |-> tree[p[i]].lines]
    /\ pc' = "unify"
    /\ UNCHANGED << ProcVars, batch_size, db_batch_size, headers, file_idx, total_rows,
                    temp_csv, csv, error_csv, sqlite, pending, batch, insert_count, line_idx,
                    result, hist >>

\* "return stats": the value of unify_txt_files is not looked at
ReturnStats ==
    /\ pc = "done"
    /\ url # <<>>
    /\ returned' = << stats >>
    /\ pc' = "returned"
    /\ UNCHANGED << UnifyVars, url, response, zip_urls, url_idx, zip_path, stats, archives,
                    tree, attempts >>

NextProcess ==
    \/ NoZipUrls
    \/ FindZipUrls
    \/ DownloadFile
    \/ ExtractZip
    \/ CallUnify
    \/ NoTxtFiles
    \/ DetermineHeaders
    \/ WriteHeader
    \/ MergeFile
    \/ NoRows
    \/ UnlinkFinal
    \/ RenameTemp
    \/ CallValidatePipeFile
    \/ CreateTable
    \/ InsertLine
    \/ FinishLoad
    \/ LoadError
    \/ ReturnStats

SpecProcess == InitProcess /\ [][NextProcess]_vars


-----------------------------------------------------------------------------
(* Properties of process_url (specification SpecProcess).                   *)

\* unify_txt_files ran and returned False: the merge, the validation or the
\* store load failed
UnifyFailed == result = "False"

\* the values process_url returns when dataset and store were rebuilt: the
\* counts of a run that extracted at least one archive
RebuiltReturns ==
    { s \in [found : 1..MaxLinks, downloaded : 1..MaxLinks, extracted : 1..MaxLinks] :
        s.extracted <= s.downloaded /\ s.downloaded <= s.found }

\* C11: when the merge, the validation or the store load fails during
\* process_url, the value process_url returns is not one that it returns after
\* a run that rebuilt dataset and store: the operator can tell the two apart.
C11_FailureSurfacedInResult ==
    (pc = "returned" /\ UnifyFailed) => returned[1] \notin RebuiltReturns

\* a run that rebuilt dataset and store returns the counts 1, 1, 1
C11_RebuiltRun ==
    /\ pc = "returned"
    /\ result = "True"
    /\ returned = << [found |-> 1, downloaded |-> 1, extracted |-> 1] >>

Downloaded == { i \in 1..Len(attempts) : attempts[i].downloaded }
ExtractedOk == { i \in 1..Len(attempts) : attempts[i].extracted = "True" }
LoopDone == pc \notin {"process_url", "download", "extract"} /\ zip_urls # <<>>

\* C12: in process_url a rejected URL, a failed download or a failed
\* extraction never stops the loop: the URLs handed to download_file are the
\* discovered list, each once and in list order, whatever became of the earlier
\* ones, and the counts satisfy extracted <= downloaded <= found.
C12_EveryUrlAttemptedOnce ==
    /\ Len(attempts) <= Len(zip_urls)
    /\ \A i \in 1..Len(attempts) : attempts[i].url = zip_urls[i]
    /\ LoopDone => Len(attempts) = Len(zip_urls)
    /\ pc # "process_url" /\ zip_urls # <<>> =>
          /\ stats.found = Len(zip_urls)
          /\ stats.downloaded = Cardinality(Downloaded)
          /\ stats.extracted = Cardinality(ExtractedOk)
          /\ stats.extracted <= stats.downloaded
          /\ stats.downloaded <= stats.found
    /\ returned # <<>> =>
          /\ returned[1].extracted <= returned[1].downloaded
          /\ returned[1].downloaded <= returned[1].found

C12_Witness ==
    /\ pc = "returned"
    /\ Len(zip_urls) = 2
    /\ ~attempts[1].downloaded
    /\ attempts[2].extracted = "True"
    /\ returned = << [found |-> 2, downloaded |-> 1, extracted |-> 1] >>

NothingFound == ~_is_valid_url(url) \/ ~response.ok

\* C13: when the page URL is no valid http/https URL (whatever a request
\* would answer) or the page request fails, find_zip_urls returns the empty
\* list and process_url returns found = 0, downloaded = 0, extracted = 0 without
\* a download and without a merge: dataset and store are what they were.
C13_InvalidOrFailedPage ==
    NothingFound =>
        /\ find_zip_urls(url, response) = <<>>
        /\ ~_is_valid_url(url) =>
              \A a \in SeqsUpTo(ProcessAnchors, MaxLinks) :
                  find_zip_urls(url, [ok |-> TRUE, anchors |-> a]) = <<>>
        /\ pc \in {"process_url", "returned"}
        /\ pc = "returned" =>
              returned = << [found |-> 0, downloaded |-> 0, extracted |-> 0] >>
        /\ attempts = <<>> /\ archives = {} /\ tree = TreeLeftBy(hist.csv0)
        /\ result = "none"
        /\ csv = hist.csv0 /\ temp_csv = hist.temp0 /\ sqlite = hist.sqlite0
        /\ error_csv = Absent

C13_Witness ==
    /\ pc = "returned"
    /\ url = InvalidUrl
    /\ response.ok
    /\ Len(response.anchors) = 2
    /\ response.anchors[1] = Anchor(File1Zip)
    /\ csv = OldCsv
    /\ sqlite = OldDb


ArchiveNames(files) == { a.name : a \in files }

\* a step of extract_zip, and what it returned
ExtractStep == pc = "extract" /\ pc' = "download"
ExtractReturnedTrue == attempts'[Len(attempts')].extracted = "True"

\* C14: extract_zip deletes the source archive if and only if it returns True:
\* after True the archive file is gone and its entries are under
\* output_dir/<archive stem>; after False (corrupt archive, any other error) the
\* archive file is still there, as it was.
C14_ArchiveDeletedIffExtracted ==
    [][ExtractStep =>
          /\ ExtractReturnedTrue <=> zip_path \notin ArchiveNames(archives')
          /\ ExtractReturnedTrue =>
                \E i \in 1..Len(tree') :
                    /\ tree'[i].dir = Stem(zip_path)
                    /\ tree'[i].lines = ArchiveAt(zip_path).content.lines
          /\ ~ExtractReturnedTrue => ArchiveAt(zip_path) \in archives']_vars

C14_Witness ==
    /\ pc = "download"
    /\ Len(attempts) = 2
    /\ attempts[1].extracted = "False"
    /\ attempts[2].extracted = "True"
    /\ ArchiveNames(archives) = { File1Zip }
    /\ Len(tree) = 1
    /\ tree[1].dir = << "file2" >>

Finished(a) == a.downloaded => a.extracted # "none"

\* C20: in every run of process_url, a download starts only when the download
\* and, if downloaded, the extraction of every earlier URL have finished; the
\* merge starts only after every discovered URL was processed; the validation
\* starts only after ruc_temp.csv was renamed to ruc.csv; the store is dropped
\* and loaded only after the validation returned success.
C20_StepsOrdered ==
    [][/\ (pc = "download" /\ attempts' # attempts /\ Len(attempts') > Len(attempts)) =>
             /\ Len(attempts) = url_idx - 1
             /\ \A i \in 1..Len(attempts) : Finished(attempts[i])
       /\ (pc # "unify" /\ pc' = "unify") =>
             /\ Len(attempts) = Len(zip_urls)
             /\ \A i \in 1..Len(attempts) : Finished(attempts[i])
       /\ (hist.valid = "none" /\ hist'.valid # "none") =>
             /\ hist.merged.exists
             /\ csv = hist.merged
             /\ ~temp_csv.exists
       /\ (sqlite' # sqlite \/ hist'.db_calls # hist.db_calls) =>
             /\ hist.valid = "ok"
             /\ hist'.db_calls = 1]_vars

C20_Witness ==
    /\ pc = "returned"
    /\ result = "True"
    /\ Len(attempts) = 2
    /\ attempts[1].extracted = "False"
    /\ attempts[2].extracted = "True"
    /\ hist.db_calls = 1
    /\ hist.sqlite0 = OldDb


-----------------------------------------------------------------------------
(* find_zip_urls on sample pages (specification SpecFind).                  *)

DirIndex == << "http", ":", "/", "/", "h", "/", "dir", "/", "index" >>
FtpSite == << "ftp", ":", "/", "/", "example.com" >>
FindUrls == { ExampleCom, DirIndex, InvalidUrl, FtpSite }

Ruc0Download == << "RUC0", ".ZIP", "/", "download" >>
AbsZip == << "/", "abs", ".zip" >>
FtpZip == << "ftp", ":", "/", "/", "f", "/", "x", ".zip" >>
CdnZip == << "HTTPS", ":", "/", "/", "cdn", "/", "y", ".zip" >>
MailtoZip == << "mailto", ":", "me", ".zip" >>
ZipWithQuery == << "a", ".zip", "?", "v" >>
QueryZip == << "?", "f", ".zip" >>
HostZip == << "/", "/", "cdn", "/", "z", ".zip" >>

FindAnchors ==
    { Anchor(h) : h \in { File1Zip, File2Zip, NotAZip, OnlyDotZip, Ruc0Download, AbsZip, FtpZip,
                          CdnZip, MailtoZip, ZipWithQuery, QueryZip, HostZip } }
        \cup { NoHref }

InitFind ==
    /\ pc = "find_zip_urls"
    /\ url \in FindUrls
    /\ response \in {NoResponse}
          \cup { [ok |-> TRUE, anchors |-> a] : a \in SeqsUpTo(FindAnchors, MaxLinks) }
    /\ zip_urls = <<>>
    /\ url_idx = 1
    /\ zip_path = <<>>
    /\ stats = NoStats
    /\ archives = {}
    /\ tree = <<>>
    /\ attempts = <<>>
    /\ returned = <<>>
    /\ txt_files = <<>>
    /\ batch_size = DefaultBatchSize
    /\ db_batch_size = DefaultBatchSize
    /\ headers = NoHeaders
    /\ file_idx = 1
    /\ total_rows = 0
    /\ temp_csv = Absent
    /\ csv = Absent
    /\ sqlite = NoDb
    /\ error_csv = Absent
    /\ pending = <<>>
    /\ batch = <<>>
    /\ insert_count = 0
    /\ line_idx = 1
    /\ result = "none"
    /\ hist = NoHist

\* zip_urls = self.find_zip_urls(url)
CallFindZipUrls ==
    /\ pc = "find_zip_urls"
    /\ zip_urls' = find_zip_urls(url, response)
    /\ pc' = "found"
    /\ UNCHANGED << UnifyVars, url, response, url_idx, zip_path, stats, archives, tree,
                    attempts, returned >>

NextFind == CallFindZipUrls

SpecFind == InitFind /\ [][NextFind]_vars

\* the lowercased href ends with '.zip' or contains '.zip/'
MatchesZip(h) ==
    \E i \in 1..Len(h) :
        /\ h[i] \in {".zip", ".ZIP"}
        /\ (i = Len(h) \/ h[i + 1] = "/")

\* the absolute resolutions of the matching hyperlink targets, in document order
Resolutions ==
    LET links == SelectSeq(response.anchors, LAMBDA a : a.has_href /\ MatchesZip(a.href))
    IN [i \in 1..Len(links) |-> urljoin(url, links[i].href)]

HttpOrHttps(u) ==
    /\ Len(u) >= 5
    /\ u[1] \in {"http", "https", "HTTPS"}
    /\ SubSeq(u, 2, 4) = << ":", "/", "/" >>
    /\ u[5] \notin {"/", "?"}

FetchedPage == pc = "found" /\ _is_valid_url(url) /\ response.ok

\* C15 as stated: for a valid page URL and a successful fetch, find_zip_urls
\* returns, in document order and with duplicates kept, exactly the absolute
\* resolutions of the hyperlink targets whose lowercased value ends with '.zip'
\* or contains '.zip/', and every returned URL has scheme http or https.
C15_AllZipLinksResolved ==
    FetchedPage =>
        /\ zip_urls = Resolutions
        /\ \A i \in 1..Len(zip_urls) : HttpOrHttps(zip_urls[i])

\* C15 amended: find_zip_urls returns, in document order and with duplicates
\* kept, exactly those of these resolutions that are http or https URLs with a
\* host; a matching target that resolves to another scheme is left out.
C15_HttpZipLinksResolved ==
    FetchedPage =>
        /\ zip_urls = SelectSeq(Resolutions, HttpOrHttps)
        /\ \A i \in 1..Len(zip_urls) : HttpOrHttps(zip_urls[i])

C15_Witness ==
    /\ pc = "found"
    /\ url = DirIndex
    /\ response.ok
    /\ response.anchors = << Anchor(FtpZip), Anchor(Ruc0Download) >>
    /\ zip_urls = << << "http", ":", "/", "/", "h", "/", "dir", "/",
                        "RUC0", ".ZIP", "/", "download" >> >>


-----------------------------------------------------------------------------
(* _get_filename_from_url on sample URLs (specification SpecFilename).      *)

MaxSegments == 2     \* path segments of a URL handed to _get_filename_from_url

HostH == << "http", ":", "/", "/", "h" >>
SegmentSamples ==
    { << "files" >>, << "data" >>, << "data", ".zip" >>, << "ruc0", ".ZIP" >>, << ".zip" >>,
      << "a", ".zip", "x" >> }
TrailingSamples == { <<>>, << "/" >>, << "?", "v" >> }

\* base/seg1/seg2...
RECURSIVE WithPath(_, _)
WithPath(base, segs) ==
    IF segs = <<>> THEN base ELSE WithPath(base \o << Slash >> \o Head(segs), Tail(segs))

UrlSamples ==
    { WithPath(base, segs) \o t :
        base \in { ExampleCom, HostH }, segs \in SeqsUpTo(SegmentSamples, MaxSegments),
        t \in TrailingSamples }

InitFilename ==
    /\ pc = "_get_filename_from_url"
    /\ \E u \in UrlSamples : zip_urls = << u >>
    /\ url = <<>>
    /\ response = NoResponse
    /\ url_idx = 1
    /\ zip_path = <<>>
    /\ stats = NoStats
    /\ archives = {}
    /\ tree = <<>>
    /\ attempts = <<>>
    /\ returned = <<>>
    /\ txt_files = <<>>
    /\ batch_size = DefaultBatchSize
    /\ db_batch_size = DefaultBatchSize
    /\ headers = NoHeaders
    /\ file_idx = 1
    /\ total_rows = 0
    /\ temp_csv = Absent
    /\ csv = Absent
    /\ sqlite = NoDb
    /\ error_csv = Absent
    /\ pending = <<>>
    /\ batch = <<>>
    /\ insert_count = 0
    /\ line_idx = 1
    /\ result = "none"
    /\ hist = NoHist

\* filename = self._get_filename_from_url(url)
CallGetFilename ==
    /\ pc = "_get_filename_from_url"
    /\ zip_path' = _get_filename_from_url(zip_urls[url_idx])
    /\ pc' = "derived"
    /\ UNCHANGED << UnifyVars, url, response, zip_urls, url_idx, stats, archives, tree, attempts,
                    returned >>

NextFilename == CallGetFilename

SpecFilename == InitFilename /\ [][NextFilename]_vars

\* a '<name>.zip' token of a URL: in a stretch without "/", the extension after
\* at least one character; the first stretch that has one, up to its extension
IsExtension(c) == c \in {".zip", ".ZIP"}
HasToken(seg) == \E i \in 2..Len(seg) : IsExtension(seg[i])
TokenOf(u) ==
    LET segs == Segments(u)
        first == CHOOSE k \in 1..Len(segs) :
                    HasToken(segs[k]) /\ \A j \in 1..(k - 1) : ~HasToken(segs[j])
        last == CHOOSE i \in 2..Len(segs[first]) :
                    /\ IsExtension(segs[first][i])
                    /\ \A j \in (i + 1)..Len(segs[first]) : ~IsExtension(segs[first][j])
    IN SubSeq(segs[first], 1, last)
ContainsToken(u) == \E k \in 1..Len(Segments(u)) : HasToken(Segments(u)[k])

FinalSegment(u) == PathName(urlparse(u).path)

\* C16: for every URL, _get_filename_from_url returns a name that ends with
\* the archive extension: the '<name>.zip' token when the URL contains one (also
\* when further path segments follow it), otherwise the final path segment with
\* '.zip' appended if it does not end with it, or 'downloaded_file.zip' when the
\* path has no final segment.
C16_FilenameEndsWithZip ==
    pc = "derived" =>
        LET u == zip_urls[1]
        IN /\ zip_path # <<>>
           /\ IsExtension(zip_path[Len(zip_path)])
           /\ ContainsToken(u) => zip_path = TokenOf(u)
           /\ (~ContainsToken(u) /\ FinalSegment(u) # <<>>) =>
                 zip_path = IF IsExtension(FinalSegment(u)[Len(FinalSegment(u))])
                            THEN FinalSegment(u)
                            ELSE FinalSegment(u) \o << ".zip" >>
           /\ (~ContainsToken(u) /\ FinalSegment(u) = <<>>) =>
                 zip_path = << "downloaded_file", ".zip" >>

\* the cases of C16 other than the empty path, which hold
C16_ExceptEmptyPath ==
    (pc = "derived" /\ (ContainsToken(zip_urls[1]) \/ FinalSegment(zip_urls[1]) # <<>>)) =>
        C16_FilenameEndsWithZip


-----------------------------------------------------------------------------
(* The lookup of src/src/api.py on the store the loader built               *)
(* (specification SpecLoad).                                                *)

NoRow == [found |-> FALSE, row |-> [ruc |-> <<>>, razon_social |-> <<>>, dv |-> <<>>,
                                    estado |-> <<>>]]

\* SELECT ruc, razon_social, dv, estado FROM ruc WHERE ruc = ? LIMIT 1: the
\* first row in id order whose ruc is the key; None without a store file
search_ruc(db, ruc) ==
    LET hits == { i \in 1..Len(db.rows) : db.rows[i][1] = ruc }
    IN IF ~ReaderSeesStore(db) \/ hits = {} THEN NoRow
       ELSE LET i == CHOOSE h \in hits : \A j \in hits : h <= j
            IN [found |-> TRUE,
                row |-> [ruc |-> db.rows[i][1], razon_social |-> db.rows[i][2],
                         dv |-> db.rows[i][3], estado |-> db.rows[i][5]]]

\* Variant of format_response: the separator and dv are always appended.
FormatResponseAlwaysDv(row) ==
    [ruc |-> row.ruc \o << "-" >> \o Strip(row.dv),
     razon_social |-> Strip(row.razon_social),
     estado |-> Strip(row.estado)]

\* format_response
format_response(row) ==
    LET dv == Strip(row.dv)
    IN [ruc |-> IF dv # <<>> THEN row.ruc \o << "-" >> \o dv ELSE row.ruc,
        razon_social |-> Strip(row.razon_social),
        estado |-> Strip(row.estado)]

\* 'ruc-dv' or 'ruc' alone, razon_social and estado trimmed, of a store row
Formatted(r) ==
    [ruc |-> IF Strip(r[3]) = <<>> THEN r[1] ELSE r[1] \o << "-" >> \o Strip(r[3]),
     razon_social |-> Strip(r[2]),
     estado |-> Strip(r[5])]

Loaded == pc = "done" /\ result = "True"

\* the first row of the store with the same ruc as row i
FirstWithRuc(i) ==
    CHOOSE j \in 1..i :
        /\ sqlite.rows[j][1] = sqlite.rows[i][1]
        /\ \A k \in 1..(j - 1) : sqlite.rows[k][1] # sqlite.rows[i][1]

\* C17 as stated: for every row the loader inserted, the exact-key lookup by
\* its ruc followed by format_response succeeds and returns the key as 'ruc-dv'
\* when the row's trimmed dv is non-empty and as 'ruc' alone when it is empty,
\* with the row's razon_social and estado trimmed.
C17_LookupReturnsRow ==
    Loaded =>
        \A i \in 1..Len(sqlite.rows) :
            LET hit == search_ruc(sqlite, sqlite.rows[i][1])
            IN hit.found /\ format_response(hit.row) = Formatted(sqlite.rows[i])

\* C17 amended: the lookup by the ruc of an inserted row succeeds and returns,
\* formatted in that way, the first inserted row with that ruc: the row itself
\* when no earlier row has its ruc.
C17_LookupReturnsFirstRow ==
    Loaded =>
        \A i \in 1..Len(sqlite.rows) :
            LET hit == search_ruc(sqlite, sqlite.rows[i][1])
            IN /\ hit.found
               /\ format_response(hit.row) = Formatted(sqlite.rows[FirstWithRuc(i)])
               /\ (\A k \in 1..(i - 1) : sqlite.rows[k][1] # sqlite.rows[i][1]) =>
                     format_response(hit.row) = Formatted(sqlite.rows[i])

C17_Witness ==
    /\ Loaded
    /\ Len(sqlite.rows) = 2
    /\ sqlite.rows[1] = << <<"1">>, <<"A">>, <<>>, <<"0">>, <<"activo">> >>
    /\ sqlite.rows[2] = << <<"1">>, <<"A">>, <<"1">>, <<"0">>, <<"activo">> >>
    /\ format_response(search_ruc(sqlite, << "1" >>).row).ruc = << "1" >>


-----------------------------------------------------------------------------
(* The removal of the offending lines (specification SpecValidate).         *)

\* the lines of the dataset the validator found that are not offending, in
\* their order
Conforming ==
    LET keep == SelectSeq([i \in 1..Len(ValidatedIn) |-> i], LAMBDA i : i \notin Offending)
    IN [n \in 1..Len(keep) |-> ValidatedIn[keep[n]]]

\* C18: when _validate_pipe_file finds k lines whose field count differs from
\* the header's, the rewritten dataset is the sequence of lines it found with
\* exactly those k lines removed: the header and every conforming line are left,
\* in their order, and the line count drops by exactly k, wherever the offending
\* lines are.
C18_ExactlyOffendingRemoved ==
    (hist.valid = "ok") =>
        /\ csv.lines = Conforming
        /\ csv.lines[1] = ValidatedIn[1]
        /\ Len(csv.lines) = Len(ValidatedIn) - Cardinality(Offending)

C18_Witness ==
    /\ hist.valid = "ok"
    /\ Len(ValidatedIn) = 4
    /\ Offending = {2, 3}
    /\ csv.lines = << HeaderLine, Row5Empty >>

\* offending lines at the first and the last position around a conforming one
C18_WitnessFirstLast ==
    /\ hist.valid = "ok"
    /\ Len(ValidatedIn) = 4
    /\ Offending = {2, 4}
    /\ csv.lines = << ShortHeaderLine, Row2 >>


-----------------------------------------------------------------------------
(* Flat files whose read fails during the merge (specification Spec).       *)

\* the data rows of the files whose read did not fail, in listing order
RowsOfFilesRead ==
    Concat([i \in 1..Len(txt_files) |->
               IF i \in hist.failed THEN <<>> ELSE ExpectedFileRows(txt_files[i])])

\* C19: if the read of a flat file fails at any point of the merge, also
\* after some of its rows were buffered or flushed in a batch, the file is
\* skipped: none of its rows is in the merged dataset, and every other file is
\* merged.
C19_FailedFileSkipped ==
    (pc = "validate" /\ hist.failed # {}) =>
        Tail(hist.merged.lines) = RowsOfFilesRead

\* a read that fails before the first batch of the file is flushed leaves no
\* row of the file, and the other file is merged
C19_FailedBeforeFlush ==
    /\ pc = "validate"
    /\ hist.failed = {1}
    /\ Len(txt_files) = 2
    /\ Tail(hist.merged.lines) = RowsOfFilesRead


-----------------------------------------------------------------------------
(* error.csv after a validation (specification SpecValidate).               *)

\* the quarantine rows of the lines this run removed, in line order
QuarantineOfThisRun ==
    LET off == SelectSeq([i \in 1..Len(ValidatedIn) |-> i], LAMBDA i : i \in Offending)
    IN [n \in 1..Len(off) |->
           QuarantineRow(off[n], ValidatedIn[off[n]],
                         AnnotatedReason(ValidatedIn[off[n]], ValidatedIn[1]))]

\* C21: after a _validate_pipe_file run that returns True, error.csv
\* describes that run only: its rows are exactly the lines that run removed, so
\* after a run that removes no line error.csv holds no row (of an earlier run).
C21_QuarantineOfThisRunOnly ==
    (hist.valid = "ok") =>
        IF Offending = {}
        THEN ~error_csv.exists \/ Len(error_csv.lines) <= 1
        ELSE error_csv.lines = << ErrorFileHeader >> \o QuarantineOfThisRun

\* a run that removes a line replaces the error.csv of an earlier run
C21_ReplacedWhenRemoved ==
    /\ hist.valid = "ok"
    /\ hist.error0 = OldErrorCsv
    /\ Offending # {}
    /\ error_csv.lines = << ErrorFileHeader >> \o QuarantineOfThisRun
    /\ OldErrorCsv.lines[2] \notin Range(error_csv.lines)


-----------------------------------------------------------------------------
(* The dataset the store is built from (specification Spec).                *)

\* _create_sqlite_db was invoked by this call
LoadInvoked == hist.db_calls > 0

\* C22: whenever unify_txt_files invokes _create_sqlite_db, the validated
\* dataset file is the header plus one or more data rows: a validation that
\* removes every data row does not lead to an empty store reported as success.
C22_StoreFromNonEmptyDataset ==
    /\ LoadInvoked => Len(hist.load_in.lines) >= 2
    /\ pc = "load" => Len(csv.lines) >= 2
    /\ (pc = "done" /\ result = "True") => sqlite.rows # <<>>

\* a validation that leaves a data row leads to a store with that row
C22_StoreWithRows ==
    /\ pc = "done"
    /\ result = "True"
    /\ Len(hist.validated_in.lines) > Len(hist.load_in.lines)
    /\ Len(sqlite.rows) = Len(hist.load_in.lines) - 1
    /\ sqlite.rows # <<>>


-----------------------------------------------------------------------------
(* A ruc_temp.csv left by an earlier run (specification Spec).              *)

\* the temp file was renamed to the final path by this call
Renamed == hist.merged.exists

\* the lines this call wrote: the header, then the rows of its batches
WrittenThisRun == << Join(headers.fields) >> \o hist.rows

\* C23: a ruc_temp.csv present at the start of the merge never contributes to
\* the final dataset: the file renamed to ruc_completo.csv holds the header and
\* the rows written in this run and nothing else, and no line of the stale temp
\* file's data is ever in the final dataset.
C23_StaleTempNeverMerged ==
    /\ Renamed => hist.merged.lines = WrittenThisRun
    /\ pc = "validate" => csv.lines = WrittenThisRun
    /\ \A i \in 2..Len(StaleTemp.lines) : StaleTemp.lines[i] \notin Range(csv.lines)

\* a run that started with a stale temp file reached the rename
C23_Witness ==
    /\ hist.temp0 = StaleTemp
    /\ pc = "validate"
    /\ csv.lines = WrittenThisRun
    /\ Len(csv.lines) >= 2


-----------------------------------------------------------------------------
(* The flat files process_url merges (specification SpecProcess).           *)

\* the directories of the archives this run downloaded and extracted
FreshDirs == { Stem(_get_filename_from_url(attempts[i].url)) : i \in ExtractedOk }

\* the rows of the flat files in those directories
FreshRows ==
    UNION { Range(ExpectedFileRows(tree[k].lines)) :
                k \in { n \in 1..Len(tree) : tree[n].dir \in FreshDirs } }

\* C24: the flat files process_url merges are those of the archives that
\* were downloaded and extracted with success during this run: every file
\* under output_dir at the merge lies in the directory of such an archive, and
\* every data row of the merged dataset is a row of such a file.
C24_OnlyFreshFilesMerged ==
    LoopDone =>
        /\ \A k \in 1..Len(tree) : tree[k].dir \in FreshDirs
        /\ Renamed => \A i \in 2..Len(hist.merged.lines) : hist.merged.lines[i] \in FreshRows

\* the flat file of an earlier run is merged into the new dataset and store
C24_StaleFileMerged ==
    /\ pc = "returned"
    /\ result = "True"
    /\ ExtractedOk # {}
    /\ Stem(File1Zip) \notin FreshDirs
    /\ StaleTxt[2] \in Range(csv.lines)
    /\ OldRow \in Range(sqlite.rows)

\* the flat file of an extraction that returned False is merged
C24_FailedExtractionMerged ==
    /\ pc = "returned"
    /\ result = "True"
    /\ hist.csv0 = Absent
    /\ ExtractedOk = {}
    /\ Len(csv.lines) >= 2

\* a first run merges the files it extracted and no other
C24_FirstRunFreshOnly ==
    /\ pc = "returned"
    /\ result = "True"
    /\ hist.csv0 = Absent
    /\ Len(tree) = 2
    /\ \A k \in 1..Len(tree) : tree[k].dir \in FreshDirs
    /\ \A i \in 2..Len(hist.merged.lines) : hist.merged.lines[i] \in FreshRows


-----------------------------------------------------------------------------
(* _validate_pipe_file applied to its own output (specification             *)
(* SpecRevalidate).                                                         *)

\* _validate_pipe_file(csv_path) once more, on the file a run that returned
\* True left; reading the file may raise
ValidateAgain ==
    /\ pc = "load"
    /\ \E io_error \in BOOLEAN :
          LET v == _validate_pipe_file(csv, error_csv)
              ok == v.ok /\ ~io_error
          IN /\ csv' = IF io_error THEN csv ELSE v.csv
             /\ error_csv' = IF io_error THEN error_csv ELSE v.error_csv
             /\ result' = IF ok THEN "True" ELSE "False"
    /\ pc' = "validated_twice"
    /\ UNCHANGED << ProcVars, UnifyLocals, headers, file_idx, total_rows, temp_csv, sqlite, DbLocals,
                    hist >>

NextRevalidate ==
    \/ CallValidatePipeFile
    \/ ValidateAgain

SpecRevalidate == InitValidate /\ [][NextRevalidate]_vars

\* the lines of a dataset file whose field count is not the header's
OffendingIn(file) ==
    LET lines == NonEmptyLines(file.lines)
    IN { i \in 2..Len(lines) : NumCols(lines[i]) # NumCols(lines[1]) }

SecondRun == pc = "load" /\ pc' = "validated_twice"

\* C25: _validate_pipe_file is idempotent on its output: on a dataset that a
\* run has just validated with success, a second run finds no offending line
\* and leaves the dataset file (and error.csv) as they are.
C25_SecondRunChangesNothing ==
    [][SecondRun => /\ OffendingIn(csv) = {}
                    /\ csv' = csv
                    /\ error_csv' = error_csv]_vars

\* the first run removed lines, the second one returned True and changed nothing
C25_Witness ==
    /\ pc = "validated_twice"
    /\ result = "True"
    /\ Cardinality(Offending) >= 2
    /\ csv.lines # ValidatedIn
    /\ Len(csv.lines) = Len(ValidatedIn) - Cardinality(Offending)
    /\ OffendingIn(csv) = {}

\* the first run removed every data row: the second one returns False on the
\* header that is left, and changes nothing either
C25_SecondRunOnHeaderOnly ==
    /\ pc = "validated_twice"
    /\ result = "False"
    /\ Len(csv.lines) = 1
    /\ csv.lines[1] = ValidatedIn[1]

====
